---- MODULE Spec2Model ----
\* Model of drivers/clk/qcom/clk-smd-rpm.c: the prepare / unprepare / set_rate
\* clock operations of two peer RPM-SMD clocks that share one RPM resource,
\* the global mutex rpm_smd_clk_lock, and the RPM transport as a collaborator
\* whose write either succeeds (0) or fails with a negative errno.
EXTENDS Integers, Sequences, FiniteSets, TLC

\* ---------------------------------------------------------------- bounds
\* Total number of clock operations the callers start in one behaviour.
MaxCalls == 3

\* ------------------------------------------------------------- universe
\* A clock and its peer (struct clk_smd_rpm.peer): the two handles of one
\* DEFINE_CLK_SMD_RPM* pair.
Handles == {"clk", "clk_a"}

peer(r) == IF r = "clk" THEN "clk_a" ELSE "clk"

\* Calling contexts of the clock framework (arbitrary kernel threads).
Threads == {"t1", "t2"}

\* Rates (Hz) a handle is constructed with, and rates passed to set_rate.
InitRates == {0, 1, 3000}

SetRates == {0, 2000}

\* Values qcom_rpm_smd_write can return: 0 or a negative errno (-EIO, -ENOMEM).
TransportRets == {0, -5, -12}

ACTIVE_STATE == "QCOM_SMD_RPM_ACTIVE_STATE"

SLEEP_STATE == "QCOM_SMD_RPM_SLEEP_STATE"

NoThread == "none"

NoHandle == "none"

VARIABLES
    rate,           \* r->rate of each handle
    enabled,        \* r->enabled of each handle
    active_only,    \* r->active_only (fixed at construction)
    branch,         \* r->branch (fixed at construction)
    mutex,          \* owner of rpm_smd_clk_lock, or NoThread
    pc,             \* position of each thread inside its current operation
    op,             \* operation each thread is executing
    hw,             \* handle the operation was called on
    arg,            \* the rate argument of set_rate
    loc,            \* the operation's local variables
    log,            \* RPM writes submitted by the current operation, in order
    entry,          \* r->enabled and r->rate when the operation took the lock
    rpm,            \* last request value the RPM accepted, per context
    fully_prepared, \* history: some prepare of the handle ran without a failed vote
    ncalls,         \* number of operations started
    failed,         \* history: some RPM write has returned an error
    committed,      \* history: rate of the last set_rate whose two votes succeeded
    enc,            \* a single vote request being built, outside any operation
    probe           \* rpm_smd_clk_probe: its position, locals and effects

vars == <<rate, enabled, active_only, branch, mutex, pc, op, hw, arg, loc,
          log, entry, rpm, fully_prepared, ncalls, failed, committed, enc, probe>>

\* The RPM side: what it holds and whether a write to it has failed.
transport == <<rpm, failed>>

\* What no clock operation changes.
statics == <<active_only, branch, enc, probe>>

\* --------------------------------------------------------- pure helpers
max(a, b) == IF a > b THEN a ELSE b

\* C's !!x
notnot(x) == IF x # 0 THEN 1 ELSE 0

\* An unsigned long n is held as the pair k, u with n = 1000 * k + u and
\* u < 1000, so that every value of the 32-bit word fits the checker's
\* integers. ULONG_WRAP is 2^BITS_PER_LONG = 4294967296 of a 32-bit build.
ULONG_WRAP == [k |-> 4294967, u |-> 296]

ToUlong(n) == [k |-> n \div 1000, u |-> n % 1000]

\* x + n in unsigned long arithmetic (modulo 2^BITS_PER_LONG), for n < 1000.
ulong_add(x, n) ==
    LET u1 == x.u + n
        k1 == x.k + (u1 \div 1000)
        u2 == u1 % 1000
    IN IF k1 > ULONG_WRAP.k \/ (k1 = ULONG_WRAP.k /\ u2 >= ULONG_WRAP.u)
       THEN IF u2 >= ULONG_WRAP.u
            THEN [k |-> k1 - ULONG_WRAP.k, u |-> u2 - ULONG_WRAP.u]
            ELSE [k |-> k1 - ULONG_WRAP.k - 1, u |-> u2 + 1000 - ULONG_WRAP.u]
       ELSE [k |-> k1, u |-> u2]

\* DIV_ROUND_UP(n, d) is ((n) + (d) - 1) / (d), in the type of n: unsigned
\* long here, with d = 1000, the radix of the pair.
DIV_ROUND_UP(n, d) == ulong_add(n, d - 1).k

\* r->rpm_key
rpm_key(r) == <<"rpm_key", r>>

\* struct clk_smd_rpm_req built by clk_smd_rpm_set_rate_active/_sleep from
\* the unsigned long `r_rate`; sizeof(u32) is 4, and the quotient of a 32-bit
\* unsigned long is stored in the u32 value unchanged.
clk_smd_rpm_req(r, r_rate) ==
    [key |-> rpm_key(r), nbytes |-> 4, value |-> DIV_ROUND_UP(r_rate, 1000)]

\* The context a per-handle vote is written to.
\* Mutation: the active vote goes to the sleep set.
clk_smd_rpm_set_rate_active_ctx_sleep == SLEEP_STATE

clk_smd_rpm_set_rate_active_ctx == ACTIVE_STATE

clk_smd_rpm_set_rate_sleep_ctx == SLEEP_STATE

\* Mutation: an active-only clock votes its rate for the sleep set too.
to_active_sleep_always(r_active_only, r_rate) ==
    [active |-> r_rate, sleep |-> r_rate]

to_active_sleep(r_active_only, r_rate) ==
    [active |-> r_rate, sleep |-> IF r_active_only THEN 0 ELSE r_rate]

NoEntry == [enabled |-> FALSE, rate |-> 0, peer_enabled |-> FALSE, peer_rate |-> 0]

ZeroLocals ==
    [this_rate |-> 0, this_sleep_rate |-> 0, peer_rate |-> 0,
     peer_sleep_rate |-> 0, active_rate |-> 0, sleep_rate |-> 0, ret |-> 0]

\* "Take peer clock's rate into account only if it's enabled."
peer_active_sleep(r) ==
    IF enabled[peer(r)]
    THEN to_active_sleep(active_only[peer(r)], rate[peer(r)])
    ELSE [active |-> 0, sleep |-> 0]

\* ------------------------------------------------------------ transport
\* One qcom_rpm_smd_write of the request for `r_rate` to context `ctx` that
\* returned `res`: the write is recorded in the operation's log, and the RPM
\* holds the value of the last request it accepted.
Submitted(t, ctx, r_rate, res) ==
    /\ log' = [log EXCEPT ![t] = Append(@,
                 [ctx |-> ctx, rate |-> r_rate,
                  req |-> clk_smd_rpm_req(hw[t], ToUlong(r_rate)), ret |-> res])]
    /\ rpm' = IF res = 0
              THEN [rpm EXCEPT ![ctx] = clk_smd_rpm_req(hw[t], ToUlong(r_rate)).value]
              ELSE rpm
    /\ failed' = (failed \/ res # 0)

\* The probe is not running.
NoProbe ==
    [pc |-> "none", table |-> <<>>, i |-> 0, clks |-> <<>>, provider |-> FALSE,
     writes |-> <<>>, ret |-> 0]

\* No request is being built.
NoEnc == [r |-> NoHandle, rate |-> ToUlong(0), ctx |-> "none", req |-> <<>>]

\* ------------------------------------------------------------------ Init
Init ==
    /\ rate \in [Handles -> InitRates]
    /\ enabled = [r \in Handles |-> FALSE]
    /\ active_only \in [Handles -> BOOLEAN]
    /\ branch \in {[r \in Handles |-> b] : b \in BOOLEAN}
    /\ mutex = NoThread
    /\ pc = [t \in Threads |-> "idle"]
    /\ op = [t \in Threads |-> "none"]
    /\ hw = [t \in Threads |-> NoHandle]
    /\ arg = [t \in Threads |-> 0]
    /\ loc = [t \in Threads |-> ZeroLocals]
    /\ log = [t \in Threads |-> <<>>]
    /\ entry = [t \in Threads |-> NoEntry]
    /\ rpm = [c \in {ACTIVE_STATE, SLEEP_STATE} |-> 0]
    /\ fully_prepared = [r \in Handles |-> FALSE]
    /\ ncalls = 0
    /\ failed = FALSE
    /\ committed = rate
    /\ enc = NoEnc
    /\ probe = NoProbe

\* ------------------------------------------------- call, lock and unlock
\* The two tables of operations: the branch table has no .set_rate.
clk_smd_rpm_ops == {"prepare", "unprepare", "set_rate", "round_rate", "recalc_rate"}

clk_smd_rpm_branch_ops == {"prepare", "unprepare", "round_rate", "recalc_rate"}

\* The table a handle is defined with (hw.init->ops): the branch table for a
\* branch handle, set_rate not being used on branch handles.
hw_ops(r) == IF branch[r] THEN clk_smd_rpm_branch_ops ELSE clk_smd_rpm_ops

\* The operations that take rpm_smd_clk_lock; round_rate and recalc_rate
\* are pure reads.
LockedOps == {"prepare", "unprepare", "set_rate"}

\* The clock framework calls one of the clk_ops on a handle.
Call(t) ==
    /\ pc[t] = "idle"
    /\ ncalls < MaxCalls
    /\ \E r \in Handles, o \in LockedOps, a \in SetRates :
         /\ o \in hw_ops(r)
         /\ o # "set_rate" => a = 0
         /\ op' = [op EXCEPT ![t] = o]
         /\ hw' = [hw EXCEPT ![t] = r]
         /\ arg' = [arg EXCEPT ![t] = a]
    /\ pc' = [pc EXCEPT ![t] = "lock"]
    /\ ncalls' = ncalls + 1
    /\ UNCHANGED <<rate, enabled, statics, mutex, loc, log, entry, transport, fully_prepared, committed>>

\* Mutation: the lock is taken without waiting for its owner to release it.
Lock_nowait(t) ==
    /\ pc[t] = "lock"
    /\ mutex' = t
    /\ entry' = [entry EXCEPT ![t] =
                    [enabled |-> enabled[hw[t]], rate |-> rate[hw[t]],
                     peer_enabled |-> enabled[peer(hw[t])],
                     peer_rate |-> rate[peer(hw[t])]]]
    /\ pc' = [pc EXCEPT ![t] = "start"]
    /\ UNCHANGED <<rate, enabled, statics, op, hw, arg, loc, log, transport, fully_prepared, ncalls, committed>>

\* mutex_lock(&rpm_smd_clk_lock)
Lock(t) ==
    /\ pc[t] = "lock"
    /\ mutex = NoThread
    /\ mutex' = t
    /\ entry' = [entry EXCEPT ![t] =
                    [enabled |-> enabled[hw[t]], rate |-> rate[hw[t]],
                     peer_enabled |-> enabled[peer(hw[t])],
                     peer_rate |-> rate[peer(hw[t])]]]
    /\ pc' = [pc EXCEPT ![t] = "start"]
    /\ UNCHANGED <<rate, enabled, statics, op, hw, arg, loc, log, transport, fully_prepared, ncalls, committed>>

\* Mutation: the operation returns without mutex_unlock.
Unlock_forgets(t) ==
    /\ pc[t] = "unlock"
    /\ mutex = t
    /\ mutex' = mutex
    /\ pc' = [pc EXCEPT ![t] = "idle"]
    /\ op' = [op EXCEPT ![t] = "none"]
    /\ hw' = [hw EXCEPT ![t] = NoHandle]
    /\ arg' = [arg EXCEPT ![t] = 0]
    /\ loc' = [loc EXCEPT ![t] = ZeroLocals]
    /\ log' = [log EXCEPT ![t] = <<>>]
    /\ entry' = [entry EXCEPT ![t] = NoEntry]
    /\ committed' = committed
    /\ UNCHANGED <<rate, enabled, statics, transport, fully_prepared, ncalls>>

\* mutex_unlock(&rpm_smd_clk_lock); return ret;
\* The operation's frame is gone once it has returned.
Unlock(t) ==
    /\ pc[t] = "unlock"
    /\ mutex = t
    /\ mutex' = NoThread
    /\ pc' = [pc EXCEPT ![t] = "idle"]
    /\ op' = [op EXCEPT ![t] = "none"]
    /\ hw' = [hw EXCEPT ![t] = NoHandle]
    /\ arg' = [arg EXCEPT ![t] = 0]
    /\ loc' = [loc EXCEPT ![t] = ZeroLocals]
    /\ log' = [log EXCEPT ![t] = <<>>]
    /\ entry' = [entry EXCEPT ![t] = NoEntry]
    /\ committed' =
         IF /\ op[t] = "set_rate"
            /\ Len(log[t]) = 2
            /\ \A i \in 1..2 : log[t][i].ret = 0
         THEN [committed EXCEPT ![hw[t]] = arg[t]]
         ELSE committed
    /\ UNCHANGED <<rate, enabled, statics, transport, fully_prepared, ncalls>>

\* --------------------------------------------------- clk_smd_rpm_prepare
\* Mutation: the rate check is missing.
prepare_rate_not_set_never(r) == FALSE

\* "Don't send requests to the RPM if the rate has not been set."
prepare_rate_not_set(r) == rate[r] = 0

\* Mutation: the branch collapse of the active vote is missing.
prepare_active_rate_nocollapse(r_branch, this_rate, peer_rate) ==
    max(this_rate, peer_rate)

\* active_rate = max(this_rate, peer_rate); if (r->branch) active_rate = !!active_rate;
prepare_active_rate(r_branch, this_rate, peer_rate) ==
    IF r_branch THEN notnot(max(this_rate, peer_rate)) ELSE max(this_rate, peer_rate)

\* Mutation: the peer's sleep rate is left out of the sleep vote.
prepare_sleep_rate_own(r_branch, this_sleep_rate, peer_sleep_rate) ==
    IF r_branch THEN notnot(this_sleep_rate) ELSE this_sleep_rate

\* sleep_rate = max(this_sleep_rate, peer_sleep_rate); if (r->branch) sleep_rate = !!sleep_rate;
prepare_sleep_rate(r_branch, this_sleep_rate, peer_sleep_rate) ==
    IF r_branch THEN notnot(max(this_sleep_rate, peer_sleep_rate))
    ELSE max(this_sleep_rate, peer_sleep_rate)

\* The rate of the vote that undoes the active vote after a failed sleep vote.
prepare_undo_rate(l) == l.peer_rate

\* Lines 89-102: the rate check and the computation of the active vote.
PrepareStart(t) ==
    /\ pc[t] = "start" /\ op[t] = "prepare" /\ mutex = t
    /\ LET r == hw[t]
           this == to_active_sleep(active_only[r], rate[r])
           p == peer_active_sleep(r)
       IN IF prepare_rate_not_set(r)
          THEN /\ pc' = [pc EXCEPT ![t] = "p_out"]
               /\ loc' = [loc EXCEPT ![t] = ZeroLocals]
          ELSE /\ pc' = [pc EXCEPT ![t] = "p_active"]
               /\ loc' = [loc EXCEPT ![t] =
                    [ZeroLocals EXCEPT !.this_rate = this.active,
                                       !.this_sleep_rate = this.sleep,
                                       !.peer_rate = p.active,
                                       !.peer_sleep_rate = p.sleep,
                                       !.active_rate =
                                           prepare_active_rate(branch[r], this.active, p.active)]]
    /\ UNCHANGED <<rate, enabled, statics, mutex, op, hw, arg, log, entry, transport, fully_prepared, ncalls, committed>>

\* Lines 104-110: ret = clk_smd_rpm_set_rate_active(r, active_rate); if (ret) goto out;
PrepareActive(t) ==
    /\ pc[t] = "p_active" /\ mutex = t
    /\ \E res \in TransportRets :
         /\ Submitted(t, clk_smd_rpm_set_rate_active_ctx, loc[t].active_rate, res)
         /\ IF res # 0
            THEN /\ loc' = [loc EXCEPT ![t].ret = res]
                 /\ pc' = [pc EXCEPT ![t] = "p_out"]
            ELSE /\ loc' = [loc EXCEPT ![t].ret = res,
                                       ![t].sleep_rate =
                                           prepare_sleep_rate(branch[hw[t]],
                                                              loc[t].this_sleep_rate,
                                                              loc[t].peer_sleep_rate)]
                 /\ pc' = [pc EXCEPT ![t] = "p_sleep"]
    /\ UNCHANGED <<rate, enabled, statics, mutex, op, hw, arg, entry, fully_prepared, ncalls, committed>>

\* Lines 112-113: ret = clk_smd_rpm_set_rate_sleep(r, sleep_rate); if (ret) ...
PrepareSleep(t) ==
    /\ pc[t] = "p_sleep" /\ mutex = t
    /\ \E res \in TransportRets :
         /\ Submitted(t, clk_smd_rpm_set_rate_sleep_ctx, loc[t].sleep_rate, res)
         /\ loc' = [loc EXCEPT ![t].ret = res]
         /\ pc' = [pc EXCEPT ![t] = IF res # 0 THEN "p_undo" ELSE "p_out"]
    /\ UNCHANGED <<rate, enabled, statics, mutex, op, hw, arg, entry, fully_prepared, ncalls, committed>>

\* Lines 114-115: "Undo the active set vote and restore it":
\* ret = clk_smd_rpm_set_rate_active(r, peer_rate);
PrepareUndo(t) ==
    /\ pc[t] = "p_undo" /\ mutex = t
    /\ \E res \in TransportRets :
         /\ Submitted(t, clk_smd_rpm_set_rate_active_ctx, prepare_undo_rate(loc[t]), res)
         /\ loc' = [loc EXCEPT ![t].ret = res]
         /\ pc' = [pc EXCEPT ![t] = "p_out"]
    /\ UNCHANGED <<rate, enabled, statics, mutex, op, hw, arg, entry, fully_prepared, ncalls, committed>>

\* Lines 117-119: out: if (!ret) r->enabled = true;
PrepareOut(t) ==
    /\ pc[t] = "p_out" /\ mutex = t
    /\ enabled' = IF loc[t].ret = 0 THEN [enabled EXCEPT ![hw[t]] = TRUE] ELSE enabled
    /\ fully_prepared' =
         IF \A i \in 1..Len(log[t]) : log[t][i].ret = 0
         THEN [fully_prepared EXCEPT ![hw[t]] = TRUE]
         ELSE fully_prepared
    /\ pc' = [pc EXCEPT ![t] = "unlock"]
    /\ UNCHANGED <<rate, statics, mutex, op, hw, arg, loc, log, entry, transport, ncalls, committed>>

\* ------------------------------------------------- clk_smd_rpm_unprepare
\* if (!r->rate) goto out;
unprepare_rate_not_set(r) == rate[r] = 0

\* Mutation: the handle's own rate stays in the vote.
unprepare_active_rate_keeps_own(r_branch, this_rate, peer_rate) ==
    IF r_branch THEN notnot(max(this_rate, peer_rate)) ELSE max(this_rate, peer_rate)

\* active_rate = r->branch ? !!peer_rate : peer_rate;
unprepare_active_rate(r_branch, this_rate, peer_rate) ==
    IF r_branch THEN notnot(peer_rate) ELSE peer_rate

\* sleep_rate = r->branch ? !!peer_sleep_rate : peer_sleep_rate;
unprepare_sleep_rate(r_branch, this_sleep_rate, peer_sleep_rate) ==
    IF r_branch THEN notnot(peer_sleep_rate) ELSE peer_sleep_rate

\* Mutation: the vote's result is not checked.
unprepare_after_vote_ignores(res, next) == next

\* Where unprepare goes after a vote that returned `res`: if (ret) goto out;
unprepare_after_vote(res, next) == IF res # 0 THEN "unlock" ELSE next

\* Lines 136-144: the rate check and the computation of the active vote.
UnprepareStart(t) ==
    /\ pc[t] = "start" /\ op[t] = "unprepare" /\ mutex = t
    /\ LET r == hw[t]
           p == peer_active_sleep(r)
       IN IF unprepare_rate_not_set(r)
          THEN /\ pc' = [pc EXCEPT ![t] = "unlock"]
               /\ loc' = [loc EXCEPT ![t] = ZeroLocals]
          ELSE /\ pc' = [pc EXCEPT ![t] = "u_active"]
               /\ loc' = [loc EXCEPT ![t] =
                    [ZeroLocals EXCEPT !.peer_rate = p.active,
                                       !.peer_sleep_rate = p.sleep,
                                       !.active_rate =
                                           unprepare_active_rate(branch[r], rate[r], p.active)]]
    /\ UNCHANGED <<rate, enabled, statics, mutex, op, hw, arg, log, entry, transport, fully_prepared, ncalls, committed>>

\* Lines 145-149: ret = clk_smd_rpm_set_rate_active(r, active_rate); if (ret) goto out;
UnprepareActive(t) ==
    /\ pc[t] = "u_active" /\ mutex = t
    /\ \E res \in TransportRets :
         /\ Submitted(t, clk_smd_rpm_set_rate_active_ctx, loc[t].active_rate, res)
         /\ loc' = [loc EXCEPT ![t].ret = res,
                               ![t].sleep_rate =
                                   IF res # 0 THEN 0
                                   ELSE unprepare_sleep_rate(branch[hw[t]], rate[hw[t]],
                                                             loc[t].peer_sleep_rate)]
         /\ pc' = [pc EXCEPT ![t] = unprepare_after_vote(res, "u_sleep")]
    /\ UNCHANGED <<rate, enabled, statics, mutex, op, hw, arg, entry, fully_prepared, ncalls, committed>>

\* Lines 150-152: ret = clk_smd_rpm_set_rate_sleep(r, sleep_rate); if (ret) goto out;
UnprepareSleep(t) ==
    /\ pc[t] = "u_sleep" /\ mutex = t
    /\ \E res \in TransportRets :
         /\ Submitted(t, clk_smd_rpm_set_rate_sleep_ctx, loc[t].sleep_rate, res)
         /\ loc' = [loc EXCEPT ![t].ret = res]
         /\ pc' = [pc EXCEPT ![t] = unprepare_after_vote(res, "u_done")]
    /\ UNCHANGED <<rate, enabled, statics, mutex, op, hw, arg, entry, fully_prepared, ncalls, committed>>

\* Line 154: r->enabled = false;
UnprepareDone(t) ==
    /\ pc[t] = "u_done" /\ mutex = t
    /\ enabled' = [enabled EXCEPT ![hw[t]] = FALSE]
    /\ pc' = [pc EXCEPT ![t] = "unlock"]
    /\ UNCHANGED <<rate, statics, mutex, op, hw, arg, loc, log, entry, transport, fully_prepared, ncalls, committed>>

\* -------------------------------------------------- clk_smd_rpm_set_rate
\* Mutation: the enabled check is missing.
set_rate_not_enabled_never(r) == FALSE

\* if (!r->enabled) goto out;
set_rate_not_enabled(r) == ~enabled[r]

\* active_rate = max(this_rate, peer_rate);
set_rate_active_rate(r_branch, this_rate, peer_rate) == max(this_rate, peer_rate)

\* sleep_rate = max(this_sleep_rate, peer_sleep_rate);
set_rate_sleep_rate(r_branch, this_sleep_rate, peer_sleep_rate) ==
    max(this_sleep_rate, peer_sleep_rate)

\* Mutation: the vote's result is not checked.
set_rate_after_vote_ignores(res, next) == next

\* Where set_rate goes after a vote that returned `res`: if (ret) goto out;
set_rate_after_vote(res, next) == IF res # 0 THEN "unlock" ELSE next

\* Lines 172-182: the enabled check and the computation of the active vote
\* from the rate passed in.
SetRateStart(t) ==
    /\ pc[t] = "start" /\ op[t] = "set_rate" /\ mutex = t
    /\ LET r == hw[t]
           this == to_active_sleep(active_only[r], arg[t])
           p == peer_active_sleep(r)
       IN IF set_rate_not_enabled(r)
          THEN /\ pc' = [pc EXCEPT ![t] = "unlock"]
               /\ loc' = [loc EXCEPT ![t] = ZeroLocals]
          ELSE /\ pc' = [pc EXCEPT ![t] = "s_active"]
               /\ loc' = [loc EXCEPT ![t] =
                    [ZeroLocals EXCEPT !.this_rate = this.active,
                                       !.this_sleep_rate = this.sleep,
                                       !.peer_rate = p.active,
                                       !.peer_sleep_rate = p.sleep,
                                       !.active_rate =
                                           set_rate_active_rate(branch[r], this.active, p.active)]]
    /\ UNCHANGED <<rate, enabled, statics, mutex, op, hw, arg, log, entry, transport, fully_prepared, ncalls, committed>>

\* Lines 183-187: ret = clk_smd_rpm_set_rate_active(r, active_rate); if (ret) goto out;
SetRateActive(t) ==
    /\ pc[t] = "s_active" /\ mutex = t
    /\ \E res \in TransportRets :
         /\ Submitted(t, clk_smd_rpm_set_rate_active_ctx, loc[t].active_rate, res)
         /\ loc' = [loc EXCEPT ![t].ret = res,
                               ![t].sleep_rate =
                                   IF res # 0 THEN 0
                                   ELSE set_rate_sleep_rate(branch[hw[t]],
                                                            loc[t].this_sleep_rate,
                                                            loc[t].peer_sleep_rate)]
         /\ pc' = [pc EXCEPT ![t] = set_rate_after_vote(res, "s_sleep")]
    /\ UNCHANGED <<rate, enabled, statics, mutex, op, hw, arg, entry, fully_prepared, ncalls, committed>>

\* Lines 188-190: ret = clk_smd_rpm_set_rate_sleep(r, sleep_rate); if (ret) goto out;
SetRateSleep(t) ==
    /\ pc[t] = "s_sleep" /\ mutex = t
    /\ \E res \in TransportRets :
         /\ Submitted(t, clk_smd_rpm_set_rate_sleep_ctx, loc[t].sleep_rate, res)
         /\ loc' = [loc EXCEPT ![t].ret = res]
         /\ pc' = [pc EXCEPT ![t] = set_rate_after_vote(res, "s_done")]
    /\ UNCHANGED <<rate, enabled, statics, mutex, op, hw, arg, entry, fully_prepared, ncalls, committed>>

\* Mutation: the new rate is stored in the peer handle.
SetRateDone_peer(t) ==
    /\ pc[t] = "s_done" /\ mutex = t
    /\ rate' = [rate EXCEPT ![peer(hw[t])] = arg[t]]
    /\ pc' = [pc EXCEPT ![t] = "unlock"]
    /\ UNCHANGED <<enabled, statics, mutex, op, hw, arg, loc, log, entry, transport, fully_prepared, ncalls, committed>>

\* Line 192: r->rate = rate;
SetRateDone(t) ==
    /\ pc[t] = "s_done" /\ mutex = t
    /\ rate' = [rate EXCEPT ![hw[t]] = arg[t]]
    /\ pc' = [pc EXCEPT ![t] = "unlock"]
    /\ UNCHANGED <<enabled, statics, mutex, op, hw, arg, loc, log, entry, transport, fully_prepared, ncalls, committed>>

\* ------------------------------------------------- the aggregate votes
\* Lines 92-110: the active and sleep rates a prepare of r computes from r
\* as self and r->peer as peer.
clk_smd_rpm_prepare_votes(r) ==
    LET this == to_active_sleep(active_only[r], rate[r])
        p == peer_active_sleep(r)
    IN [active |-> prepare_active_rate(branch[r], this.active, p.active),
        sleep |-> prepare_sleep_rate(branch[r], this.sleep, p.sleep)]

\* Lines 175-187: the active and sleep rates a set_rate of r to `new` computes.
clk_smd_rpm_set_rate_votes(r, new) ==
    LET this == to_active_sleep(active_only[r], new)
        p == peer_active_sleep(r)
    IN [active |-> set_rate_active_rate(branch[r], this.active, p.active),
        sleep |-> set_rate_sleep_rate(branch[r], this.sleep, p.sleep)]

\* ---------------------------------- clk_smd_rpm_round_rate / recalc_rate
\* "just return whatever rate is requested"
clk_smd_rpm_round_rate(r, r_rate) == r_rate

\* Mutation: the parent's rate (0, the clocks having no parent) is returned.
clk_smd_rpm_recalc_rate_parent(r) == 0

\* "just return whatever rate was set": return r->rate, read without the lock.
clk_smd_rpm_recalc_rate(r) == rate[r]

\* ------------------------------------------------------ returned value
\* Mutation: any failure is reported as -EIO.
clk_op_returns_eio(o, ret) ==
    IF o = "unprepare" THEN <<>> ELSE IF ret # 0 THEN <<-5>> ELSE <<0>>

\* What the caller of an operation gets when it ends with local `ret`, as
\* the sequence of returned values: prepare and set_rate "return ret";
\* unprepare is a void function and its ret is dropped.
clk_op_returns(o, ret) == IF o = "unprepare" THEN <<>> ELSE <<ret>>

\* ------------------------------------------------------- specification
Next ==
    \E t \in Threads :
        \/ Call(t)
        \/ Lock(t)
        \/ PrepareStart(t)
        \/ PrepareActive(t)
        \/ PrepareSleep(t)
        \/ PrepareUndo(t)
        \/ PrepareOut(t)
        \/ UnprepareStart(t)
        \/ UnprepareActive(t)
        \/ UnprepareSleep(t)
        \/ UnprepareDone(t)
        \/ SetRateStart(t)
        \/ SetRateActive(t)
        \/ SetRateSleep(t)
        \/ SetRateDone(t)
        \/ Unlock(t)

Spec == Init /\ [][Next]_vars

\* The statements of an operation between mutex_lock and its return: none
\* of them waits, every transport submission returning.
Body(t) ==
    \/ PrepareStart(t)
    \/ PrepareActive(t)
    \/ PrepareSleep(t)
    \/ PrepareUndo(t)
    \/ PrepareOut(t)
    \/ UnprepareStart(t)
    \/ UnprepareActive(t)
    \/ UnprepareSleep(t)
    \/ UnprepareDone(t)
    \/ SetRateStart(t)
    \/ SetRateActive(t)
    \/ SetRateSleep(t)
    \/ SetRateDone(t)
    \/ Unlock(t)

\* SpecFair: the operations on two plain handles, clk_a the active-only
\* one with a rate already requested, under the scheduling the kernel gives them: a thread inside an
\* operation keeps running (weak fairness of its statements) and a thread
\* waiting in mutex_lock gets the mutex if it is free again and again
\* (strong fairness of the acquisition).  The framework is not obliged to
\* call anything.
FairInit ==
    /\ Init
    /\ branch = [r \in Handles |-> FALSE]
    /\ active_only = [r \in Handles |-> r = "clk_a"]
    /\ rate["clk_a"] = 3000

Fairness ==
    \A t \in Threads : WF_vars(Body(t)) /\ SF_vars(Lock(t))

SpecFair == FairInit /\ [][Next]_vars /\ Fairness

\* ------------------------------------- round_rate and recalc_rate called
\* The operations that take no lock and submit nothing.
ReadOps == {"round_rate", "recalc_rate"}

\* clk_smd_rpm_round_rate(hw, rate, parent_rate): return rate;
RoundRate(t) ==
    /\ pc[t] = "idle"
    /\ ncalls < MaxCalls
    /\ \E r \in Handles, a \in SetRates :
         /\ "round_rate" \in hw_ops(r)
         /\ op' = [op EXCEPT ![t] = "round_rate"]
         /\ hw' = [hw EXCEPT ![t] = r]
         /\ arg' = [arg EXCEPT ![t] = a]
         /\ loc' = [loc EXCEPT ![t].ret = clk_smd_rpm_round_rate(r, a)]
    /\ pc' = [pc EXCEPT ![t] = "return"]
    /\ ncalls' = ncalls + 1
    /\ UNCHANGED <<rate, enabled, statics, mutex, log, entry, transport, fully_prepared, committed>>

\* clk_smd_rpm_recalc_rate(hw, parent_rate): return r->rate;
RecalcRate(t) ==
    /\ pc[t] = "idle"
    /\ ncalls < MaxCalls
    /\ \E r \in Handles :
         /\ "recalc_rate" \in hw_ops(r)
         /\ op' = [op EXCEPT ![t] = "recalc_rate"]
         /\ hw' = [hw EXCEPT ![t] = r]
         /\ loc' = [loc EXCEPT ![t].ret = clk_smd_rpm_recalc_rate(r)]
    /\ pc' = [pc EXCEPT ![t] = "return"]
    /\ ncalls' = ncalls + 1
    /\ UNCHANGED <<rate, enabled, statics, mutex, arg, log, entry, transport, fully_prepared, committed>>

\* The caller has the returned value; the frame is gone.
ReadReturn(t) ==
    /\ pc[t] = "return"
    /\ pc' = [pc EXCEPT ![t] = "idle"]
    /\ op' = [op EXCEPT ![t] = "none"]
    /\ hw' = [hw EXCEPT ![t] = NoHandle]
    /\ arg' = [arg EXCEPT ![t] = 0]
    /\ loc' = [loc EXCEPT ![t] = ZeroLocals]
    /\ UNCHANGED <<rate, enabled, statics, mutex, log, entry, transport, fully_prepared, ncalls, committed>>

\* SpecFrame: all five operations of the two tables, the reads running
\* beside the locked operations, on a pair of handles of which clk_a is the
\* active-only one.
FrameInit ==
    /\ Init
    /\ active_only = [r \in Handles |-> r = "clk_a"]

FrameNext ==
    \E t \in Threads :
        \/ Call(t)
        \/ Lock(t)
        \/ PrepareStart(t)
        \/ PrepareActive(t)
        \/ PrepareSleep(t)
        \/ PrepareUndo(t)
        \/ PrepareOut(t)
        \/ UnprepareStart(t)
        \/ UnprepareActive(t)
        \/ UnprepareSleep(t)
        \/ UnprepareDone(t)
        \/ SetRateStart(t)
        \/ SetRateActive(t)
        \/ SetRateSleep(t)
        \/ SetRateDone(t)
        \/ Unlock(t)
        \/ RoundRate(t)
        \/ RecalcRate(t)
        \/ ReadReturn(t)

SpecFrame == FrameInit /\ [][FrameNext]_vars

TypeOK ==
    /\ rate \in [Handles -> InitRates \cup SetRates]
    /\ enabled \in [Handles -> BOOLEAN]
    /\ mutex \in Threads \cup {NoThread}
    /\ ncalls \in 0..MaxCalls

\* ------------------------------------------ the encoding of one vote
\* SpecEncode: clk_smd_rpm_set_rate_active / _sleep applied once to a handle
\* and a rate drawn from the whole range of unsigned long: the quotients
\* EncK (0, 1, 19200 and the two largest) with the remainders EncU.
EncK == {0, 1, 19200, 4294966, 4294967}

EncU == {0, 1, 295, 296, 297, 999}

EncRates ==
    {x \in [k : EncK, u : EncU] :
        x.k < ULONG_WRAP.k \/ (x.k = ULONG_WRAP.k /\ x.u < ULONG_WRAP.u)}

EncInit ==
    /\ rate = [r \in Handles |-> 0]
    /\ enabled = [r \in Handles |-> FALSE]
    /\ active_only = [r \in Handles |-> FALSE]
    /\ branch = [r \in Handles |-> FALSE]
    /\ mutex = NoThread
    /\ pc = [t \in Threads |-> "idle"]
    /\ op = [t \in Threads |-> "none"]
    /\ hw = [t \in Threads |-> NoHandle]
    /\ arg = [t \in Threads |-> 0]
    /\ loc = [t \in Threads |-> ZeroLocals]
    /\ log = [t \in Threads |-> <<>>]
    /\ entry = [t \in Threads |-> NoEntry]
    /\ rpm = [c \in {ACTIVE_STATE, SLEEP_STATE} |-> 0]
    /\ fully_prepared = [r \in Handles |-> FALSE]
    /\ ncalls = 0
    /\ failed = FALSE
    /\ committed = rate
    /\ probe = NoProbe
    /\ \E r \in Handles, x \in EncRates :
         enc = [r |-> r, rate |-> x, ctx |-> "none", req |-> <<>>]

mainvars == <<rate, enabled, active_only, branch, mutex, pc, op, hw, arg, loc,
              log, entry, rpm, fully_prepared, ncalls, failed, committed>>

\* clk_smd_rpm_set_rate_active(r, rate): the request written to the active set.
EncodeActive ==
    /\ enc.req = <<>>
    /\ enc' = [enc EXCEPT !.ctx = clk_smd_rpm_set_rate_active_ctx,
                          !.req = <<clk_smd_rpm_req(enc.r, enc.rate)>>]
    /\ UNCHANGED <<mainvars, probe>>

\* clk_smd_rpm_set_rate_sleep(r, rate): the request written to the sleep set.
EncodeSleep ==
    /\ enc.req = <<>>
    /\ enc' = [enc EXCEPT !.ctx = clk_smd_rpm_set_rate_sleep_ctx,
                          !.req = <<clk_smd_rpm_req(enc.r, enc.rate)>>]
    /\ UNCHANGED <<mainvars, probe>>

EncNext == EncodeActive \/ EncodeSleep

SpecEncode == EncInit /\ [][EncNext]_vars

\* ---------------------------------------------------- rpm_smd_clk_probe
\* SpecProbe: one run of rpm_smd_clk_probe over a clock table of
\* ProbeNumClks entries, each a clock or NULL.
ProbeNumClks == 3

\* Errors of the probe's own steps: -ENODEV, -EINVAL, -ENOMEM.
ProbeSetupRets == {0, -19, -22, -12}

\* PTR_ERR of a failed devm_clk_register / result of of_clk_add_provider.
ProbeRegisterRets == {0, -12}

ProbeInit ==
    /\ rate = [r \in Handles |-> 0]
    /\ enabled = [r \in Handles |-> FALSE]
    /\ active_only = [r \in Handles |-> FALSE]
    /\ branch = [r \in Handles |-> FALSE]
    /\ mutex = NoThread
    /\ pc = [t \in Threads |-> "idle"]
    /\ op = [t \in Threads |-> "none"]
    /\ hw = [t \in Threads |-> NoHandle]
    /\ arg = [t \in Threads |-> 0]
    /\ loc = [t \in Threads |-> ZeroLocals]
    /\ log = [t \in Threads |-> <<>>]
    /\ entry = [t \in Threads |-> NoEntry]
    /\ rpm = [c \in {ACTIVE_STATE, SLEEP_STATE} |-> 0]
    /\ fully_prepared = [r \in Handles |-> FALSE]
    /\ ncalls = 0
    /\ failed = FALSE
    /\ committed = rate
    /\ enc = NoEnc
    /\ \E tbl \in [1..ProbeNumClks -> BOOLEAN] :
         probe = [pc |-> "start", table |-> tbl, i |-> 1, clks |-> <<>>,
                  provider |-> FALSE, writes |-> <<>>, ret |-> 0]

\* The enable-scaling request: key QCOM_RPM_SMD_KEY_ENABLE, sizeof(u32), value 1,
\* written to resource QCOM_SMD_RPM_MISC_CLK / QCOM_RPM_SCALING_ENABLE_ID.
enable_scaling_req ==
    [key |-> "QCOM_RPM_SMD_KEY_ENABLE", nbytes |-> 4, value |-> 1]

enable_scaling_write(ctx, res) ==
    [ctx |-> ctx, type |-> "QCOM_SMD_RPM_MISC_CLK", id |-> "QCOM_RPM_SCALING_ENABLE_ID",
     req |-> enable_scaling_req, ret |-> res]

\* Lines 507-528: the RPM handle, the match data and the allocation; each
\* failure returns at once.
ProbeSetup ==
    /\ probe.pc = "start"
    /\ \E res \in ProbeSetupRets :
         probe' = IF res # 0
                  THEN [probe EXCEPT !.pc = "done", !.ret = res]
                  ELSE [probe EXCEPT !.pc = "register"]
    /\ UNCHANGED <<mainvars, enc>>

\* Lines 530-544: one iteration of the registration loop.
ProbeRegister ==
    /\ probe.pc = "register"
    /\ probe.i <= ProbeNumClks
    /\ IF ~probe.table[probe.i]
       THEN probe' = [probe EXCEPT !.clks = Append(@, "ENOENT"), !.i = @ + 1]
       ELSE \E res \in ProbeRegisterRets :
              probe' = IF res # 0
                       THEN [probe EXCEPT !.pc = "err", !.ret = res]
                       ELSE [probe EXCEPT !.clks = Append(@, "clk"), !.i = @ + 1]
    /\ UNCHANGED <<mainvars, enc>>

\* Lines 546-549: ret = of_clk_add_provider(...); if (ret) goto err;
ProbeAddProvider ==
    /\ probe.pc = "register"
    /\ probe.i > ProbeNumClks
    /\ \E res \in ProbeRegisterRets :
         probe' = IF res # 0
                  THEN [probe EXCEPT !.pc = "err", !.ret = res]
                  ELSE [probe EXCEPT !.pc = "scaling_sleep", !.provider = TRUE, !.ret = res]
    /\ UNCHANGED <<mainvars, enc>>

\* Lines 233-239: the write to the sleep set; on failure return ret.
EnableScalingSleep ==
    /\ probe.pc = "scaling_sleep"
    /\ \E res \in TransportRets :
         probe' = [probe EXCEPT !.writes = Append(@, enable_scaling_write(SLEEP_STATE, res)),
                                !.ret = res,
                                !.pc = IF res # 0 THEN "scaling_failed" ELSE "scaling_active"]
    /\ UNCHANGED <<mainvars, enc>>

\* Lines 241-250: the write to the active set; on failure return ret, else 0.
EnableScalingActive ==
    /\ probe.pc = "scaling_active"
    /\ \E res \in TransportRets :
         probe' = [probe EXCEPT !.writes = Append(@, enable_scaling_write(ACTIVE_STATE, res)),
                                !.ret = res,
                                !.pc = IF res # 0 THEN "scaling_failed" ELSE "done"]
    /\ UNCHANGED <<mainvars, enc>>

\* Mutation: the provider is left registered.
ProbeScalingFailed_keeps ==
    /\ probe.pc = "scaling_failed"
    /\ probe' = [probe EXCEPT !.pc = "err"]
    /\ UNCHANGED <<mainvars, enc>>

\* Lines 552-555: if (ret) { of_clk_del_provider(...); goto err; }
ProbeScalingFailed ==
    /\ probe.pc = "scaling_failed"
    /\ probe' = [probe EXCEPT !.pc = "err", !.provider = FALSE]
    /\ UNCHANGED <<mainvars, enc>>

\* Lines 558-560: err: dev_err(...); return ret;
ProbeErr ==
    /\ probe.pc = "err"
    /\ probe' = [probe EXCEPT !.pc = "done"]
    /\ UNCHANGED <<mainvars, enc>>

ProbeNext ==
    \/ ProbeSetup
    \/ ProbeRegister
    \/ ProbeAddProvider
    \/ EnableScalingSleep
    \/ EnableScalingActive
    \/ ProbeScalingFailed
    \/ ProbeErr

SpecProbe == ProbeInit /\ [][ProbeNext]_vars

\* ======================================================= properties
\* An operation is observed when its body is over and it still holds the
\* lock (it is about to unlock and return loc[t].ret): the log holds every
\* RPM write it submitted and entry holds the handle's fields on entry.
AtEnd(t, o) == pc[t] = "unlock" /\ op[t] = o /\ mutex = t

AllVotesOk(t) == \A i \in 1..Len(log[t]) : log[t][i].ret = 0

\* The contextual rate of a handle with the given fields, per the
\* specification: the rate in the active context; in the sleep context 0 for
\* an active-only handle and the rate otherwise.
ContextualRate(ao, hz, ctx) ==
    IF ctx = ACTIVE_STATE THEN hz ELSE IF ao THEN 0 ELSE hz

\* The peer's contribution to a vote of handle r in context ctx.
PeerDemand(r, ctx) ==
    IF enabled[peer(r)]
    THEN ContextualRate(active_only[peer(r)], rate[peer(r)], ctx)
    ELSE 0

Collapsed(r, x) == IF branch[r] THEN (IF x = 0 THEN 0 ELSE 1) ELSE x

Larger(a, b) == IF a >= b THEN a ELSE b

\* ---------------------------------------------------------------- C1
\* C1: in prepare, when the active vote succeeds and the sleep vote fails,
\* exactly one compensating active vote is submitted and the result returned
\* to the caller is the sleep vote's error, whether the compensating vote
\* succeeds or fails.
C1_SleepErrorReported ==
    \A t \in Threads :
        (/\ AtEnd(t, "prepare")
         /\ Len(log[t]) >= 2
         /\ log[t][1].ret = 0
         /\ log[t][2].ctx = SLEEP_STATE
         /\ log[t][2].ret # 0)
        => /\ Len(log[t]) = 3
           /\ log[t][3].ctx = ACTIVE_STATE
           /\ loc[t].ret = log[t][2].ret

\* ---------------------------------------------------------------- C2
\* C2: enabled is true only after a prepare has fully succeeded: a handle
\* that starts not enabled is enabled only if some prepare on it had rate 0
\* or had both votes succeed, and a prepare in which a vote failed never
\* sets enabled to true.
C2_EnabledOnlyAfterFullPrepare ==
    /\ \A r \in Handles : enabled[r] => fully_prepared[r]
    /\ \A t \in Threads :
         (AtEnd(t, "prepare") /\ ~AllVotesOk(t) /\ ~entry[t].enabled)
         => ~enabled[hw[t]]

\* ---------------------------------------------------------------- C3
\* C3: after any unprepare that completes without a failed vote the handle's
\* enabled flag is false, for every value of the rate, rate 0 included.
C3_UnprepareClearsEnabled ==
    \A t \in Threads :
        (AtEnd(t, "unprepare") /\ AllVotesOk(t)) => ~enabled[hw[t]]

\* ---------------------------------------------------------------- C4
\* C4 (as stated): within one operation no sleep vote is submitted unless an
\* active vote of the same operation preceded it and succeeded, and no
\* active vote follows a sleep vote of the operation.
C4_ActiveNeverAfterSleep ==
    \A t \in Threads : \A i \in 1..Len(log[t]) :
        /\ log[t][i].ctx = SLEEP_STATE
           => \E j \in 1..(i - 1) :
                log[t][j].ctx = ACTIVE_STATE /\ log[t][j].ret = 0
        /\ log[t][i].ctx = ACTIVE_STATE
           => \A j \in 1..(i - 1) : log[t][j].ctx # SLEEP_STATE

\* C4 (amended): within one operation no sleep vote is submitted unless an
\* active vote of the same operation preceded it and succeeded, and the only
\* active vote that follows a sleep vote is the single compensating vote of
\* prepare: the third and last write, right after the failed sleep vote.
C4_ActiveBeforeSleep ==
    \A t \in Threads : \A i \in 1..Len(log[t]) :
        /\ log[t][i].ctx = SLEEP_STATE
           => /\ i = 2
              /\ log[t][1].ctx = ACTIVE_STATE /\ log[t][1].ret = 0
        /\ log[t][i].ctx = ACTIVE_STATE
           => \/ i = 1
              \/ /\ op[t] = "prepare"
                 /\ i = 3
                 /\ Len(log[t]) = 3
                 /\ log[t][2].ctx = SLEEP_STATE /\ log[t][2].ret # 0

C4_Witness ==
    \E t \in Threads :
        /\ AtEnd(t, "prepare")
        /\ Len(log[t]) = 3
        /\ log[t][2].ctx = SLEEP_STATE
        /\ log[t][3].ctx = ACTIVE_STATE

\* ---------------------------------------------------------------- C5
\* C5: a prepare of a handle with rate > 0 votes, in each context, the max of
\* its own contextual rate and the peer's (0 unless the peer is enabled),
\* collapsed to 0/1 after the max for a branch handle: the active vote first
\* and, once that succeeded, the sleep vote.
C5_PrepareVotesAggregate ==
    \A t \in Threads :
        op[t] = "prepare" =>
            LET r == hw[t]
                want(ctx) ==
                    Collapsed(r, Larger(ContextualRate(active_only[r], rate[r], ctx),
                                        PeerDemand(r, ctx)))
            IN /\ Len(log[t]) >= 1
                  => /\ log[t][1].ctx = ACTIVE_STATE
                     /\ log[t][1].rate = want(ACTIVE_STATE)
               /\ Len(log[t]) >= 2
                  => /\ log[t][2].ctx = SLEEP_STATE
                     /\ log[t][2].rate = want(SLEEP_STATE)
               /\ (AtEnd(t, "prepare") /\ rate[r] > 0)
                  => /\ Len(log[t]) >= 1
                     /\ log[t][1].ret = 0 => Len(log[t]) >= 2

\* The example: clk_a (active-only, branch, rate 1) is enabled and the
\* prepare of its peer clk (branch, rate 1) has voted active = 1, sleep = 1.
C5_Witness ==
    \E t \in Threads :
        /\ AtEnd(t, "prepare")
        /\ branch[hw[t]] /\ ~active_only[hw[t]] /\ rate[hw[t]] = 1
        /\ enabled[peer(hw[t])] /\ active_only[peer(hw[t])] /\ rate[peer(hw[t])] = 1
        /\ Len(log[t]) = 2
        /\ log[t][1].rate = 1 /\ log[t][1].ret = 0
        /\ log[t][2].rate = 1 /\ log[t][2].ret = 0

\* ---------------------------------------------------------------- C6
\* C6: an unprepare of a handle with rate > 0 votes the peer-only demand in
\* both contexts (the peer's contextual rate if the peer is enabled, else 0,
\* collapsed to 0/1 for a branch handle), its own rate never entering the
\* votes, and when both votes succeed enabled becomes false.
C6_UnprepareVotesPeerOnly ==
    \A t \in Threads :
        op[t] = "unprepare" =>
            LET r == hw[t]
                want(ctx) == Collapsed(r, PeerDemand(r, ctx))
            IN /\ Len(log[t]) >= 1
                  => /\ log[t][1].ctx = ACTIVE_STATE
                     /\ log[t][1].rate = want(ACTIVE_STATE)
               /\ Len(log[t]) >= 2
                  => /\ log[t][2].ctx = SLEEP_STATE
                     /\ log[t][2].rate = want(SLEEP_STATE)
               /\ (AtEnd(t, "unprepare") /\ rate[r] > 0)
                  => /\ Len(log[t]) >= 1
                     /\ log[t][1].ret = 0 => Len(log[t]) = 2
                     /\ (Len(log[t]) = 2 /\ AllVotesOk(t)) => ~enabled[r]

\* The example: both branch handles are enabled with rate 1 and the
\* unprepare of the active-only one has voted active = 1, sleep = 1.
C6_Witness ==
    \E t \in Threads :
        /\ AtEnd(t, "unprepare")
        /\ branch[hw[t]] /\ active_only[hw[t]] /\ rate[hw[t]] = 1
        /\ entry[t].enabled /\ ~enabled[hw[t]]
        /\ enabled[peer(hw[t])] /\ ~active_only[peer(hw[t])] /\ rate[peer(hw[t])] = 1
        /\ Len(log[t]) = 2
        /\ log[t][1].rate = 1 /\ log[t][1].ret = 0
        /\ log[t][2].rate = 1 /\ log[t][2].ret = 0

\* ---------------------------------------------------------------- C7
\* C7: a prepare of a handle whose rate is 0 submits no vote in either
\* context, returns success and leaves the handle enabled, whatever the
\* peer's state is.
C7_PrepareRateZero ==
    \A t \in Threads :
        (op[t] = "prepare" /\ mutex = t /\ rate[hw[t]] = 0)
        => /\ log[t] = <<>>
           /\ AtEnd(t, "prepare") => (loc[t].ret = 0 /\ enabled[hw[t]])

C7_Witness ==
    \E t \in Threads :
        /\ AtEnd(t, "prepare")
        /\ rate[hw[t]] = 0
        /\ ~entry[t].enabled /\ enabled[hw[t]]
        /\ enabled[peer(hw[t])] /\ rate[peer(hw[t])] > 0

\* ---------------------------------------------------------------- C8
\* C8: a set_rate on a handle that is not enabled returns success, submits
\* no vote and leaves the handle's rate (and enabled flag) as it was: the
\* new rate is not recorded.
C8_SetRateNotEnabled ==
    \A t \in Threads :
        (op[t] = "set_rate" /\ mutex = t /\ ~entry[t].enabled)
        => /\ log[t] = <<>>
           /\ rate[hw[t]] = entry[t].rate
           /\ ~enabled[hw[t]]
           /\ AtEnd(t, "set_rate") => loc[t].ret = 0

C8_Witness ==
    \E t \in Threads :
        /\ AtEnd(t, "set_rate")
        /\ ~entry[t].enabled
        /\ arg[t] # entry[t].rate
        /\ rate[hw[t]] = entry[t].rate

\* ---------------------------------------------------------------- C9
\* C9: a set_rate on an enabled handle votes active = max(new rate, peer
\* active rate if the peer is enabled else 0) and sleep = max(new sleep
\* contextual rate, peer sleep rate if the peer is enabled else 0), without
\* branch collapse; the handle's rate becomes the new rate when both votes
\* succeed and keeps its previous value when a vote fails, the failed vote
\* being the operation's last write (no compensating vote).
C9_SetRateEnabled ==
    \A t \in Threads :
        (op[t] = "set_rate" /\ mutex = t /\ entry[t].enabled) =>
            LET r == hw[t]
                want(ctx) ==
                    Larger(ContextualRate(active_only[r], arg[t], ctx), PeerDemand(r, ctx))
            IN /\ Len(log[t]) >= 1
                  => /\ log[t][1].ctx = ACTIVE_STATE
                     /\ log[t][1].rate = want(ACTIVE_STATE)
               /\ Len(log[t]) >= 2
                  => /\ log[t][2].ctx = SLEEP_STATE
                     /\ log[t][2].rate = want(SLEEP_STATE)
               /\ \A i \in 1..Len(log[t]) : log[t][i].ret # 0 => i = Len(log[t])
               /\ AtEnd(t, "set_rate")
                  => /\ Len(log[t]) >= 1
                     /\ log[t][1].ret = 0 => Len(log[t]) = 2
                     /\ loc[t].ret = log[t][Len(log[t])].ret
                     /\ AllVotesOk(t) => rate[r] = arg[t]
                     /\ ~AllVotesOk(t) => rate[r] = entry[t].rate

\* A set_rate to a new rate whose active vote carried that rate and whose
\* sleep vote failed: the rate is not committed.
C9_Witness ==
    \E t \in Threads :
        /\ AtEnd(t, "set_rate")
        /\ entry[t].enabled
        /\ arg[t] > 1 /\ arg[t] # entry[t].rate
        /\ Len(log[t]) = 2
        /\ log[t][1].rate = arg[t] /\ log[t][1].ret = 0
        /\ log[t][2].ret # 0
        /\ rate[hw[t]] = entry[t].rate

\* --------------------------------------------------------------- C10
\* C10: when a vote fails during unprepare, enabled keeps the value it had
\* before the call and the failed vote is the operation's last write (no
\* remaining sleep vote, no compensating vote).
C10_UnprepareFailure ==
    \A t \in Threads :
        op[t] = "unprepare" =>
            /\ \A i \in 1..Len(log[t]) : log[t][i].ret # 0 => i = Len(log[t])
            /\ ~AllVotesOk(t)
               => /\ enabled[hw[t]] = entry[t].enabled
                  /\ pc[t] = "unlock"

\* The gap: the active vote of an unprepare succeeded and its sleep vote
\* failed, so the RPM's last active vote is the peer-only demand (0, the
\* peer not being enabled) while the handle, with a nonzero rate, is still
\* enabled.
C10_Witness ==
    \E t \in Threads :
        /\ AtEnd(t, "unprepare")
        /\ Len(log[t]) = 2
        /\ log[t][1].ret = 0 /\ log[t][2].ret # 0
        /\ ~enabled[peer(hw[t])]
        /\ rpm[ACTIVE_STATE] = 0
        /\ rate[hw[t]] > 0
        /\ enabled[hw[t]]

\* --------------------------------------------------------------- C11
\* The value the caller of thread t's operation receives when it returns.
Returned(t) == clk_op_returns(op[t], loc[t].ret)

\* An operation ended on the failure of its i-th write, a case of C11: the
\* active vote of prepare or set_rate, the sleep vote of set_rate, or either
\* vote of unprepare.
C11_FailedAt(t, i) ==
    /\ pc[t] = "unlock" /\ mutex = t
    /\ i \in 1..Len(log[t])
    /\ log[t][i].ret # 0
    /\ \/ op[t] = "prepare" /\ i = 1
       \/ op[t] = "set_rate"
       \/ op[t] = "unprepare"

InCriticalSection(t) == pc[t] \notin {"idle", "lock"}

\* C12: one global lock covers all handles: at most one operation is between
\* its lock acquisition and its release at any time, whatever handles the
\* concurrent operations are called on, so the peer's enabled and rate that
\* an operation read on entry are still the peer's fields at each of its
\* later steps, its last vote included.
C12_GlobalMutualExclusion ==
    /\ Cardinality({t \in Threads : InCriticalSection(t)}) <= 1
    /\ \A t \in Threads :
         InCriticalSection(t)
         => /\ mutex = t
            /\ enabled[peer(hw[t])] = entry[t].peer_enabled
            /\ rate[peer(hw[t])] = entry[t].peer_rate

\* One thread has submitted its active vote and is about to submit its sleep
\* vote while the other waits for the lock with a set_rate on the peer.
C12_Witness ==
    \E t, u \in Threads :
        /\ t # u
        /\ pc[t] \in {"p_sleep", "u_sleep", "s_sleep"}
        /\ Len(log[t]) = 1
        /\ pc[u] = "lock"
        /\ hw[u] = peer(hw[t])
        /\ op[u] = "set_rate"
        /\ enabled[hw[u]]
        /\ arg[u] # rate[hw[u]]

\* --------------------------------------------------------------- C13
\* C13: for every rate of the unsigned machine word passed to a per-handle
\* vote, the payload carries the handle's key, value length 4 and the value
\* ceil(rate / 1000), so that value * 1000 >= rate.
C13_ValueIsCeilKHz ==
    enc.req # <<>> =>
        LET req == enc.req[1]
            ceil == enc.rate.k + (IF enc.rate.u > 0 THEN 1 ELSE 0)
        IN /\ req.key = <<"rpm_key", enc.r>>
           /\ req.nbytes = 4
           /\ req.value = ceil
           /\ req.value > enc.rate.k \/ (req.value = enc.rate.k /\ enc.rate.u = 0)

\* --------------------------------------------------------------- C14
ScalingWrites(ctx) == {i \in 1..Len(probe.writes) : probe.writes[i].ctx = ctx}

\* C14: the enable-scaling initialization submits the control record with
\* value 1 exactly once to the active and exactly once to the sleep context
\* of the miscellaneous resource when both succeed; if a submission fails no
\* further enable-scaling submission is made, the probe returns that error
\* and the clock provider is not left registered.
C14_EnableScalingOnce ==
    /\ \A i \in 1..Len(probe.writes) :
         /\ probe.writes[i].req.value = 1
         /\ probe.writes[i].req.key = "QCOM_RPM_SMD_KEY_ENABLE"
         /\ probe.writes[i].type = "QCOM_SMD_RPM_MISC_CLK"
         /\ probe.writes[i].ret # 0 => i = Len(probe.writes)
    /\ Cardinality(ScalingWrites(ACTIVE_STATE)) <= 1
    /\ Cardinality(ScalingWrites(SLEEP_STATE)) <= 1
    /\ (probe.pc = "done" /\ probe.ret = 0)
       => /\ Cardinality(ScalingWrites(ACTIVE_STATE)) = 1
          /\ Cardinality(ScalingWrites(SLEEP_STATE)) = 1
          /\ \A i \in 1..Len(probe.writes) : probe.writes[i].ret = 0
          /\ probe.provider
    /\ (probe.pc = "done" /\ \E i \in 1..Len(probe.writes) : probe.writes[i].ret # 0)
       => /\ probe.ret = probe.writes[Len(probe.writes)].ret
          /\ ~probe.provider

\* The probe has returned -EIO after the sleep-set write succeeded and the
\* active-set write failed with -EIO.
C14_Witness ==
    /\ probe.pc = "done"
    /\ Len(probe.writes) = 2
    /\ probe.writes[1].ret = 0
    /\ probe.writes[2].ret = -5
    /\ probe.ret = -5
    /\ ~probe.provider

\* --------------------------------------------------------------- C15
\* A set_rate of handle r whose two votes succeeded has written r->rate and
\* has not returned yet.
C15_Committing(t, r) ==
    /\ AtEnd(t, "set_rate") /\ hw[t] = r
    /\ Len(log[t]) = 2 /\ AllVotesOk(t)

\* C15: recalc_rate returns the last committed rate: the construction-time
\* rate until a set_rate fully succeeds and thereafter the rate of the most
\* recent set_rate whose two votes both succeeded; failed set_rates, set_rates
\* made while not enabled, prepares and unprepares do not change it, so two
\* calls with no set_rate in between return the same value.
C15_RecalcReturnsCommitted ==
    \A r \in Handles :
        clk_smd_rpm_recalc_rate(r) =
            IF \E t \in Threads : C15_Committing(t, r)
            THEN arg[CHOOSE t \in Threads : C15_Committing(t, r)]
            ELSE committed[r]

\* After a set_rate to 2000 fully succeeded, a set_rate to 0 has failed on
\* its sleep vote: recalc_rate still returns 2000.
C15_Witness ==
    \E t \in Threads :
        /\ AtEnd(t, "set_rate")
        /\ arg[t] = 0
        /\ Len(log[t]) = 2 /\ log[t][2].ret # 0
        /\ committed[hw[t]] = 2000
        /\ clk_smd_rpm_recalc_rate(hw[t]) = 2000

\* --------------------------------------------------------------- C16
\* C16: the compensating active vote of prepare carries the active vote as
\* it would be without this handle: the peer's active rate if the peer is
\* enabled and 0 otherwise, collapsed to 0 or 1 when the handle is a branch
\* (the value an unprepare would vote); hence every vote submitted for a
\* branch handle by prepare or unprepare has value 0 or 1.
C16_UndoVoteIsPeerOnlyCollapsed ==
    \A t \in Threads :
        op[t] \in {"prepare", "unprepare"} =>
            /\ (op[t] = "prepare" /\ Len(log[t]) = 3)
               => log[t][3].rate = Collapsed(hw[t], PeerDemand(hw[t], ACTIVE_STATE))
            /\ branch[hw[t]]
               => \A i \in 1..Len(log[t]) :
                    log[t][i].rate \in {0, 1} /\ log[t][i].req.value \in {0, 1}

\* --------------------------------------------------------------- C17
C17_Step ==
    /\ \A r \in Handles :
         (rate'[r] # rate[r] \/ enabled'[r] # enabled[r])
         => \E t \in Threads : mutex = t /\ mutex' = t /\ hw[t] = r
    /\ rpm' # rpm
       => \E t \in Threads : mutex = t /\ mutex' = t /\ Len(log'[t]) = Len(log[t]) + 1
    /\ \A t \in Threads :
         (log'[t] # log[t] /\ log'[t] # <<>>)
         => /\ mutex = t /\ mutex' = t
            /\ \A u \in Threads \ {t} : log[u] = <<>> /\ log'[u] = <<>>

\* C17: every change of a handle's rate or enabled and every per-handle RPM
\* write is a step of the thread that holds the global lock before and after
\* it, on the handle of its operation; and while an operation has writes
\* submitted and has not returned, no other operation has any, so the writes
\* of one operation are contiguous in the order of RPM writes.
C17_MutationsAndVotesUnderLock == [][C17_Step]_vars

\* An operation has submitted its two votes while the other thread, called on
\* the peer, waits for the lock.
C17_Witness ==
    \E t, u \in Threads :
        /\ t # u
        /\ Len(log[t]) = 2
        /\ mutex = t
        /\ pc[u] = "lock"
        /\ hw[u] = peer(hw[t])

\* --------------------------------------------------------------- C18
\* C18: aggregation is commutative: for two peer handles that are both
\* enabled and have the same branch flag, the (active, sleep) aggregate
\* computed with one of them as self and the other as peer equals the
\* aggregate computed with the roles swapped, for all rates and active-only
\* flags; in prepare and, with each handle's own rate as the candidate, in
\* set_rate.
C18_AggregationCommutes ==
    \A r \in Handles :
        (enabled[r] /\ enabled[peer(r)] /\ branch[r] = branch[peer(r)])
        => /\ clk_smd_rpm_prepare_votes(r) = clk_smd_rpm_prepare_votes(peer(r))
           /\ clk_smd_rpm_set_rate_votes(r, rate[r])
                = clk_smd_rpm_set_rate_votes(peer(r), rate[peer(r)])

\* Both handles are enabled, with different nonzero rates and different
\* active-only flags.
C18_Witness ==
    /\ \A r \in Handles : enabled[r] /\ rate[r] > 0
    /\ rate["clk"] < rate["clk_a"]
    /\ active_only["clk"] /\ ~active_only["clk_a"]
    /\ clk_smd_rpm_prepare_votes("clk").sleep = rate["clk_a"]

\* --------------------------------------------------------------- C19
\* The demand of the enabled handles in a context: the max of their
\* contextual rates, collapsed to 0/1 for branch handles.
AggregateDemand(ctx) ==
    LET d(r) == IF enabled[r] THEN ContextualRate(active_only[r], rate[r], ctx) ELSE 0
    IN Collapsed("clk", Larger(d("clk"), d("clk_a")))

CeilKHz(hz) == (hz + 999) \div 1000

\* C19: for two peer handles with the same branch flag that start not
\* enabled with no vote delivered, as long as no RPM write has failed,
\* whenever no operation holds the lock the last vote delivered in each
\* context (0 if none) is the aggregate demand of the enabled handles.
C19_RpmHoldsAggregateDemand ==
    (mutex = NoThread /\ ~failed /\ branch["clk"] = branch["clk_a"])
    => \A ctx \in {ACTIVE_STATE, SLEEP_STATE} :
         rpm[ctx] = CeilKHz(AggregateDemand(ctx))

\* Both handles have been prepared with no failed write and no operation
\* holds the lock: the RPM holds 3 kHz for the active set, from the
\* active-only handle, and 1 kHz for the sleep set, from its peer.
C19_Witness ==
    /\ mutex = NoThread /\ ~failed
    /\ \A r \in Handles : enabled[r]
    /\ \E r \in Handles :
         /\ active_only[r] /\ rate[r] = 3000
         /\ ~active_only[peer(r)] /\ rate[peer(r)] = 1
    /\ rpm[ACTIVE_STATE] = 3
    /\ rpm[SLEEP_STATE] = 1

\* C20: every path through prepare, unprepare and set_rate releases the
\* global lock exactly once before returning: an operation returns in the
\* very step that releases the lock it holds, the lock is released in no
\* other step, and it is held from mutex_lock to that step.  Hence, every
\* transport submission returning and lock acquisition being fair, every
\* started operation eventually completes and the lock is eventually free.
C20_Step ==
    \A t \in Threads :
        /\ (pc[t] # "idle" /\ pc'[t] = "idle") <=> (mutex = t /\ mutex' # t)
        /\ (mutex = t /\ mutex' # t) => mutex' = NoThread
        /\ pc'[t] \notin {"idle", "lock"} => mutex' = t

C20_LockReleasedOnceAndOpsComplete ==
    /\ [][C20_Step]_vars
    /\ \A t \in Threads : (pc[t] # "idle") ~> (pc[t] = "idle")
    /\ (mutex # NoThread) ~> (mutex = NoThread)

\* An operation is at its return on a vote-failure exit, holding the lock,
\* while the other thread waits in mutex_lock.
C20_Witness ==
    \E t \in Threads :
        /\ pc[t] = "unlock" /\ mutex = t
        /\ Len(log[t]) > 0 /\ log[t][Len(log[t])].ret # 0
        /\ \E u \in Threads \ {t} : pc[u] = "lock"

\* C21: a lifecycle operation on a handle only reads its peer and never
\* writes the peer's rate or enabled: a handle's rate changes only in a
\* set_rate on that handle and its enabled flag only in a prepare or an
\* unprepare on that handle (so prepare and unprepare never change the own
\* rate and set_rate never changes the own enabled flag), and a step of
\* round_rate or recalc_rate changes no field, takes no lock and submits
\* no vote.
C21_Step ==
    /\ \A r \in Handles :
         /\ rate'[r] # rate[r] =>
              \E t \in Threads :
                  mutex = t /\ hw[t] = r /\ op[t] = "set_rate"
         /\ enabled'[r] # enabled[r] =>
              \E t \in Threads :
                  mutex = t /\ hw[t] = r /\ op[t] \in {"prepare", "unprepare"}
    /\ \A t \in Threads :
         (pc'[t] # pc[t] /\ (op[t] \in ReadOps \/ op'[t] \in ReadOps)) =>
              /\ UNCHANGED <<rate, enabled, statics, mutex, transport, committed>>
              /\ log'[t] = <<>> /\ log = log'

C21_FrameOfOperations == [][C21_Step]_vars

\* A set_rate has stored a new rate in its own handle, whose peer still has
\* the nonzero rate and the enabled flag it had at entry, while the other
\* thread is returning from a recalc_rate.
C21_Witness ==
    \E t \in Threads, u \in Threads :
        /\ AtEnd(t, "set_rate")
        /\ rate[hw[t]] # entry[t].rate
        /\ enabled[peer(hw[t])] = entry[t].peer_enabled
        /\ rate[peer(hw[t])] = entry[t].peer_rate
        /\ rate[peer(hw[t])] # 0
        /\ pc[u] = "return" /\ op[u] = "recalc_rate"

====
